---- MODULE Spec2Model ----
(***************************************************************************)
(* A model of main.py: the cocktail-recipe pipeline                        *)
(*   construct_url -> fetch_data_by_filter (with its per-item fan-out)     *)
(*   -> transform_drinks -> output.json,                                   *)
(* wrapped in the module-level try/except.                                 *)
(*                                                                         *)
(* Encoding of Python values.  A str is a sequence of one-character        *)
(* strings.  A JSON value is a tagged record: Null, Str(s) or List(s).     *)
(* A dict is a function whose DOMAIN is the set of keys it holds; a drink  *)
(* dict is split in three such functions: f for the named keys, ing for    *)
(* the keys "strIngredient<i>" and meas for the keys "strMeasure<i>",      *)
(* both indexed by i.  A raised exception is the name of its type.         *)
(***************************************************************************)
EXTENDS Integers, Sequences, FiniteSets, TLC

VARIABLES
    filter_type,        \* argument of fetch_data_by_filter
    filter,             \* argument of fetch_data_by_filter
    api,                \* the upstream service: what each GET will answer
    pc,                 \* position of the script
    url,                \* result of construct_url
    fetched_data,       \* fetch_data_by_filter's local of that name
    index,              \* fan-out loop: 1-based index of the last entry entered
    new_fetched_data,   \* fan-out loop: new_fetched_data["drinks"]
    data,               \* module-level `data`: what fetch_data_by_filter returned
    transformed_drinks, \* module-level `transformed_drinks`
    exc,                \* the exception travelling to the top-level except
    events,             \* GET requests issued and lines printed, in order
    output              \* output.json as this run leaves it

vars == <<filter_type, filter, api, pc, url, fetched_data, index,
          new_fetched_data, data, transformed_drinks, exc, events, output>>

---------------------------------------------------------------------------
(* Bounds of the model. *)

MaxFilterLen == 2     \* longest filter value drawn for construct_url
MaxListing == 2       \* longest listing with varied entries
MaxTotal == 23        \* longest uniform listing (progress lines)
MaxNameLen == 5       \* longest display name drawn for transform_drinks
MaxSlots == 2         \* numbered slots set in a record drawn for transform_drinks
MaxRecords == 2       \* longest collection drawn for transform_drinks

---------------------------------------------------------------------------
(* Python strings. *)

UpperCase == <<"A","B","C","D","E","F","G","H","I","J","K","L","M","N","O","P","Q","R","S","T","U","V","W","X","Y","Z">>
LowerCase == <<"a","b","c","d","e","f","g","h","i","j","k","l","m","n","o","p","q","r","s","t","u","v","w","x","y","z">>
Digits == {"0","1","2","3","4","5","6","7","8","9"}
Letters == {UpperCase[i] : i \in 1..26} \cup {LowerCase[i] : i \in 1..26}
Whitespace == {" ", "\t", "\n"}

Range(s) == {s[i] : i \in DOMAIN s}

\* All strings over the alphabet A of length at most n.
Strings(A, n) == UNION {[1..k -> A] : k \in 0..n}

\* str.isalnum(): at least one character and every character alphanumeric.
isalnum(s) == Len(s) > 0 /\ Range(s) \subseteq (Letters \cup Digits)

\* str.isdigit(): at least one character and every character a digit.
isdigit(s) == Len(s) > 0 /\ Range(s) \subseteq Digits

\* str.lower(), one character.
LowerChar(c) ==
    IF \E i \in 1..26 : UpperCase[i] = c
    THEN LowerCase[CHOOSE i \in 1..26 : UpperCase[i] = c]
    ELSE c

lower(s) == [i \in 1..Len(s) |-> LowerChar(s[i])]

RECURSIVE lstrip(_)
lstrip(s) == IF s # <<>> /\ Head(s) \in Whitespace THEN lstrip(Tail(s)) ELSE s

RECURSIVE rstrip(_)
rstrip(s) ==
    IF s # <<>> /\ s[Len(s)] \in Whitespace
    THEN rstrip(SubSeq(s, 1, Len(s) - 1))
    ELSE s

\* str.strip()
strip(s) == rstrip(lstrip(s))

\* re.sub(r"\s+", repl, s): scanning left to right, every maximal run of
\* whitespace is replaced by one copy of repl.
RECURSIVE re_sub_ws(_, _)
re_sub_ws(repl, s) ==
    IF s = <<>> THEN <<>>
    ELSE IF Head(s) \in Whitespace
         THEN repl \o re_sub_ws(repl, lstrip(s))
         ELSE <<Head(s)>> \o re_sub_ws(repl, Tail(s))

---------------------------------------------------------------------------
(* JSON values and exceptions. *)

Null == [t |-> "null", v |-> <<>>]
Str(s) == [t |-> "str", v |-> s]
List(s) == [t |-> "list", v |-> s]

EmptyDict == <<>>                  \* {} : a function with no key

NoExc == "none"

\* The result of a call: an exception raised, or a value returned.
Raise(e) == [raised |-> e, value |-> <<>>]
Return(x) == [raised |-> NoExc, value |-> x]

---------------------------------------------------------------------------
(* validate_filter_input and construct_url. *)

base_url == <<"h","t","t","p","s",":","/","/","w","w","w",".","t","h","e","c","o","c","k","t","a","i","l","d","b",".","c","o","m","/","a","p","i","/","j","s","o","n","/","v","1","/","1">>

filter_type_map ==
    [name |-> <<"/","s","e","a","r","c","h",".","p","h","p","?","s","=">>,
     letter |-> <<"/","s","e","a","r","c","h",".","p","h","p","?","f","=">>,
     random |-> <<"/","r","a","n","d","o","m",".","p","h","p">>,
     ingredient |-> <<"/","f","i","l","t","e","r",".","p","h","p","?","i","=">>,
     alcoholic |-> <<"/","f","i","l","t","e","r",".","p","h","p","?","a","=">>,
     category |-> <<"/","f","i","l","t","e","r",".","p","h","p","?","c","=">>,
     glass |-> <<"/","f","i","l","t","e","r",".","p","h","p","?","g","=">>]

\* The "letter" branch with the isalnum test dropped.
validate_letter_NoAlnum(f) ==
    IF Len(f) # 1 THEN "ValueError" ELSE NoExc

\* Lines 29-39: the additional checks for the "letter" filter type.
validate_letter(f) ==
    IF Len(f) # 1 THEN "ValueError"
    ELSE IF ~isalnum(f) THEN "TypeError"
    ELSE NoExc

\* The exception validate_filter_input raises, or NoExc.
validate_filter_input(ft, f, map) ==
    IF ft \notin DOMAIN map THEN "KeyError"
    ELSE IF ft = "letter" THEN validate_letter(f)
    ELSE NoExc

\* construct_url with the "random" early return dropped.
construct_url_NoEarlyReturn(ft, f) ==
    LET e == validate_filter_input(ft, f, filter_type_map)
    IN  IF e # NoExc THEN Raise(e)
        ELSE Return(base_url \o filter_type_map[ft] \o f)

construct_url(ft, f) ==
    LET e == validate_filter_input(ft, f, filter_type_map)
    IN  IF e # NoExc THEN Raise(e)
        ELSE IF ft = "random" THEN Return(base_url \o filter_type_map[ft])
        ELSE Return(base_url \o filter_type_map[ft] \o f)

---------------------------------------------------------------------------
(* The upstream service. *)

\* What a GET is answered with.  requests.get returns it; raise_for_status,
\* response.text and response.json() then act on its kind.
HttpError == [kind |-> "http_error", json |-> EmptyDict]   \* non-200 status
Blank == [kind |-> "blank", json |-> EmptyDict]            \* body of whitespace only
Malformed == [kind |-> "malformed", json |-> EmptyDict]    \* body that is not JSON
Json(d) == [kind |-> "json", json |-> d]                   \* body that parses to dict d

Drinks(v) == [k \in {"drinks"} |-> v]                      \* {"drinks": v}

\* A drink dict from its three groups of keys.
Drink(f, ing, meas) == [f |-> f, ing |-> ing, meas |-> meas]
EmptyDrink == Drink(EmptyDict, EmptyDict, EmptyDict)       \* {}

Restrict(d, keys) == [k \in DOMAIN d \cap keys |-> d[k]]
Without(d, keys) == [k \in DOMAIN d \ keys |-> d[k]]

\* dict.get(k, default)
dict_get(d, k, default) == IF k \in DOMAIN d THEN d[k] ELSE default

\* d.get(k) where the code has d[k].
subscript_Get(d, k) == Return(dict_get(d, k, Null))

\* d[k]
subscript(d, k) == IF k \in DOMAIN d THEN Return(d[k]) ELSE Raise("KeyError")

\* Truth value of a dict: it holds at least one key.
truthy_Always(drink) == TRUE

truthy(drink) ==
    DOMAIN drink.f # {} \/ DOMAIN drink.ing # {} \/ DOMAIN drink.meas # {}

\* Truth value of a JSON value: None, "" and [] are false.
truthy_value(x) == x.t # "null" /\ x.v # <<>>

---------------------------------------------------------------------------
(* Console lines and requests, as they are observed. *)

Event(op, u, i, n, kind) ==
    [op |-> op, url |-> u, index |-> i, total |-> n, kind |-> kind]
Get(u) == Event("GET", u, 0, 0, "")
PrintExtra == Event("print_extra_processing", <<>>, 0, 0, "")
PrintProgress(i, n) == Event("print_processing_entry", <<>>, i, n, "")
PrintReport(n) == Event("print_report", <<>>, 0, n, "")
PrintError(e) == Event("print_error", <<>>, 0, 0, e)

---------------------------------------------------------------------------
(* fetch_drink_by_id. *)

lookup_url == <<"h","t","t","p","s",":","/","/","w","w","w",".","t","h","e","c","o","c","k","t","a","i","l","d","b",".","c","o","m","/","a","p","i","/","j","s","o","n","/","v","1","/","1","/","l","o","o","k","u","p",".","p","h","p","?","i","=">>

\* Lines 94-99: the id is a str and numeric, so the request is made.
id_accepted(id) == id.t = "str" /\ isdigit(id.v)

\* Lines 103-114: what becomes of the answer to the lookup request.
lookup_result(response) ==
    IF response.kind = "http_error" THEN Raise("HTTPError")
    ELSE IF response.kind # "json" THEN Raise("JSONDecodeError")
    ELSE LET drinks == dict_get(response.json, "drinks", Null)
         IN  IF ~truthy_value(drinks) THEN Raise("ValueError")
             ELSE Return(drinks.v[1])

\* fetch_drink_by_id(id) against the service `lookup` (id -> answer).
fetch_drink_by_id(id, lookup) ==
    IF ~id_accepted(id) THEN Raise("ValueError")
    ELSE lookup_result(lookup[id.v])

---------------------------------------------------------------------------
(* fetch_data_by_filter. *)

FanOutTypes == {"ingredient", "alcoholic", "category", "glass"}

\* drinks_list and total of the fan-out, from fetched_data.
drinks_list == dict_get(fetched_data, "drinks", List(<<>>))
total == Len(drinks_list.v)

\* Line 152
interval(n) == IF n \div 10 > 1 THEN n \div 10 ELSE 1

progress_Sparse(i, n) == i = 1 \/ i = n

\* Line 155
progress(i, n) == i = 1 \/ i % interval(n) = 0 \/ i = n

collect_Prepend(collected, drink_data) ==
    IF truthy(drink_data) THEN <<drink_data>> \o collected ELSE collected

\* Lines 160-161
collect(collected, drink_data) ==
    IF truthy(drink_data) THEN Append(collected, drink_data) ELSE collected

\* Line 133: url = construct_url(filter_type, filter)
CallConstructUrl ==
    /\ pc = "construct_url"
    /\ LET r == construct_url(filter_type, filter)
       IN  IF r.raised # NoExc
           THEN /\ exc' = r.raised
                /\ pc' = "except"
                /\ url' = url
           ELSE /\ url' = r.value
                /\ pc' = "request"
                /\ exc' = exc
    /\ UNCHANGED <<filter_type, filter, api, fetched_data, index,
                   new_fetched_data, data, transformed_drinks, events, output>>

\* Lines 136-152 (and 165 when there is no fan-out): the API call, the
\* checks of its answer, and the preparation of the fan-out.
InitialRequest ==
    /\ pc = "request"
    /\ LET response == api.initial
           d == response.json
           list == dict_get(d, "drinks", List(<<>>))
           fail(e) == /\ exc' = e
                      /\ pc' = "except"
                      /\ events' = Append(events, Get(url))
                      /\ UNCHANGED <<fetched_data, index, new_fetched_data, data>>
       IN  IF response.kind = "http_error" THEN fail("HTTPError")
           ELSE IF response.kind = "blank" THEN fail("ValueError")
           ELSE IF response.kind = "malformed" THEN fail("JSONDecodeError")
           ELSE IF filter_type \in FanOutTypes
           THEN IF list.t # "list"
                THEN \* len(None)
                     /\ exc' = "TypeError"
                     /\ pc' = "except"
                     /\ events' = events \o <<Get(url), PrintExtra>>
                     /\ fetched_data' = d
                     /\ UNCHANGED <<index, new_fetched_data, data>>
                ELSE /\ fetched_data' = d
                     /\ index' = 0
                     /\ new_fetched_data' = <<>>
                     /\ events' = events \o <<Get(url), PrintExtra>>
                     /\ pc' = "fanout"
                     /\ UNCHANGED <<exc, data>>
           ELSE /\ fetched_data' = d
                /\ data' = d
                /\ events' = Append(events, Get(url))
                /\ pc' = "transform"
                /\ UNCHANGED <<exc, index, new_fetched_data>>
    /\ UNCHANGED <<filter_type, filter, api, url, transformed_drinks, output>>

\* Lines 154-161: one iteration of the fan-out loop.
FanOutIteration ==
    /\ pc = "fanout"
    /\ index < total
    /\ LET i == index + 1
           drink == drinks_list.v[i]
           shown == IF progress(i, total) THEN <<PrintProgress(i, total)>> ELSE <<>>
           arg == subscript(drink.f, "idDrink")
       IN  /\ index' = i
           /\ IF arg.raised # NoExc
              THEN /\ exc' = arg.raised
                   /\ pc' = "except"
                   /\ events' = events \o shown
                   /\ UNCHANGED new_fetched_data
              ELSE LET id == arg.value
                       r == fetch_drink_by_id(id, api.lookup)
                       asked == IF id_accepted(id)
                                THEN <<Get(lookup_url \o id.v)>> ELSE <<>>
                   IN  /\ events' = events \o shown \o asked
                       /\ IF r.raised # NoExc
                          THEN /\ exc' = r.raised
                               /\ pc' = "except"
                               /\ UNCHANGED new_fetched_data
                          ELSE /\ new_fetched_data' =
                                     collect(new_fetched_data, r.value)
                               /\ UNCHANGED <<exc, pc>>
    /\ UNCHANGED <<filter_type, filter, api, url, fetched_data, data,
                   transformed_drinks, output>>

\* Lines 163-165: the loop is over; the new collection is returned.
FanOutReturn ==
    /\ pc = "fanout"
    /\ index = total
    /\ fetched_data' = Drinks(List(new_fetched_data))
    /\ data' = Drinks(List(new_fetched_data))
    /\ pc' = "transform"
    /\ UNCHANGED <<filter_type, filter, api, url, index, new_fetched_data,
                   transformed_drinks, exc, events, output>>

---------------------------------------------------------------------------
(* transform_drinks. *)

LastSlot == 15      \* range(1, 16)

RequiredKeys ==
    {"strDrink", "strCategory", "strAlcoholic", "strGlass",
     "strInstructions", "strDrinkThumb"}

name_id_NoStrip(name) == re_sub_ws(<<"-">>, lower(name))

\* Line 172
name_id(name) == re_sub_ws(<<"-">>, lower(strip(name)))

slot_taken_IfPresent(ingredient) == ingredient.t # "null"

\* Line 179: `if ingredient:`
slot_taken(ingredient) == truthy_value(ingredient)

\* Lines 174-182, from slot i on.
RECURSIVE ingredients_from(_, _)
ingredients_from(drink, i) ==
    IF i > LastSlot THEN <<>>
    ELSE LET ingredient == dict_get(drink.ing, i, Null)
             measure == dict_get(drink.meas, i, Null)
         IN  (IF slot_taken(ingredient)
              THEN <<[name |-> ingredient, measure |-> measure]>>
              ELSE <<>>) \o ingredients_from(drink, i + 1)

\* The first exception the reads drink[k] of the loop body raise, or NoExc.
keys_missing(drink) ==
    IF \E k \in RequiredKeys : subscript(drink.f, k).raised # NoExc
    THEN "KeyError"
    ELSE NoExc

\* Lines 172-193: the body of the loop, for one drink.
transform_drink(drink) ==
    LET strDrink == subscript(drink.f, "strDrink")
        field(k) == subscript(drink.f, k).value
    IN  IF strDrink.raised # NoExc THEN Raise(strDrink.raised)
        ELSE IF strDrink.value.t # "str"
        THEN Raise("AttributeError")           \* None.strip()
        ELSE IF keys_missing(drink) # NoExc THEN Raise(keys_missing(drink))
        ELSE Return([name_id |-> name_id(strDrink.value.v),
                     name |-> field("strDrink"),
                     category |-> field("strCategory"),
                     classification |-> field("strAlcoholic"),
                     glass |-> field("strGlass"),
                     instructions |-> field("strInstructions"),
                     image |-> field("strDrinkThumb"),
                     ingredients |-> ingredients_from(drink, 1)])

\* Lines 171-196: the loop over the drinks left, with transformed_data so far.
RECURSIVE transform_from(_, _)
transform_from(drinks, transformed_data) ==
    IF drinks = <<>> THEN Return(transformed_data)
    ELSE LET r == transform_drink(Head(drinks))
         IN  IF r.raised # NoExc THEN Raise(r.raised)
             ELSE transform_from(Tail(drinks), Append(transformed_data, r.value))

transform_drinks(d) ==
    IF "drinks" \notin DOMAIN d THEN Raise("KeyError")
    ELSE IF d["drinks"].t # "list" THEN Raise("TypeError")
    ELSE transform_from(d["drinks"].v, <<>>)

---------------------------------------------------------------------------
(* The module-level script. *)

Untouched == [state |-> "untouched", entries |-> 0]
Written(n) == [state |-> "written", entries |-> n]

\* output.json opened before the records are transformed.
Transform_OpenFirst ==
    /\ pc = "transform"
    /\ output' = Written(0)
    /\ LET r == transform_drinks(data)
       IN  IF r.raised # NoExc
           THEN /\ exc' = r.raised
                /\ pc' = "except"
                /\ UNCHANGED transformed_drinks
           ELSE /\ transformed_drinks' = r.value
                /\ pc' = "write"
                /\ UNCHANGED exc
    /\ UNCHANGED <<filter_type, filter, api, url, fetched_data, index,
                   new_fetched_data, data, events>>

\* Line 201
Transform ==
    /\ pc = "transform"
    /\ LET r == transform_drinks(data)
       IN  IF r.raised # NoExc
           THEN /\ exc' = r.raised
                /\ pc' = "except"
                /\ UNCHANGED transformed_drinks
           ELSE /\ transformed_drinks' = r.value
                /\ pc' = "write"
                /\ UNCHANGED exc
    /\ UNCHANGED <<filter_type, filter, api, url, fetched_data, index,
                   new_fetched_data, data, events, output>>

\* Lines 202-203: output.json is opened for writing and the document dumped.
WriteOutput ==
    /\ pc = "write"
    /\ output' = Written(Len(transformed_drinks))
    /\ pc' = "report"
    /\ UNCHANGED <<filter_type, filter, api, url, fetched_data, index,
                   new_fetched_data, data, transformed_drinks, exc, events>>

\* Lines 205-212
Report ==
    /\ pc = "report"
    /\ events' = Append(events, PrintReport(Len(transformed_drinks)))
    /\ pc' = "done"
    /\ UNCHANGED <<filter_type, filter, api, url, fetched_data, index,
                   new_fetched_data, data, transformed_drinks, exc, output>>

\* Lines 213-214
Except ==
    /\ pc = "except"
    /\ events' = Append(events, PrintError(exc))
    /\ pc' = "done"
    /\ UNCHANGED <<filter_type, filter, api, url, fetched_data, index,
                   new_fetched_data, data, transformed_drinks, exc, output>>

---------------------------------------------------------------------------
(* Inputs. *)

FilterTypes ==
    {"name", "letter", "random", "ingredient", "alcoholic", "category",
     "glass", "flavour"}

LookupIds == {<<"1">>, <<"2">>}

full_keys(id) ==
    [idDrink |-> Str(id),
     strDrink |-> Str(<<"N", " ">> \o id),
     strCategory |-> Str(<<"c">>),
     strAlcoholic |-> Str(<<"a">>),
     strGlass |-> Str(<<"g">>),
     strInstructions |-> Str(<<"i">>),
     strDrinkThumb |-> Str(<<"t">>)]

\* A full record, as search and lookup answer it.
FullRecord(id) ==
    Drink(full_keys(id), (1 :> Str(<<"G">>)), (1 :> Str(<<"1">>)))

\* A stub, as the filter listings answer it.
Stub(id) ==
    Drink(Restrict(full_keys(id), {"idDrink", "strDrink", "strDrinkThumb"}),
          EmptyDict, EmptyDict)

ListingEntries ==
    {Stub(<<"1">>), Stub(<<"2">>), Stub(<<"x">>),
     Drink(Without(Stub(<<"1">>).f, {"idDrink"}), EmptyDict, EmptyDict),
     Drink([Stub(<<"1">>).f EXCEPT !["idDrink"] = Null], EmptyDict, EmptyDict),
     FullRecord(<<"1">>),
     Drink(Without(full_keys(<<"2">>), {"strGlass"}), EmptyDict, EmptyDict)}

InitialResponses ==
    {HttpError, Blank, Malformed, Json(EmptyDict), Json(Drinks(Null))}
    \cup {Json(Drinks(List(s))) : s \in Strings(ListingEntries, MaxListing)}

LookupResponses(id) ==
    {HttpError, Json(Drinks(Null)),
     Json(Drinks(List(<<FullRecord(id)>>))),
     Json(Drinks(List(<<EmptyDrink>>)))}

Services ==
    {sv \in [LookupIds -> UNION {LookupResponses(id) : id \in LookupIds}] :
        \A id \in LookupIds : sv[id] \in LookupResponses(id)}

\* A listing of n stubs, each answered by its full record.
UniformListing(n) == Json(Drinks(List([i \in 1..n |-> Stub(<<"1">>)])))
GoodService == [id \in LookupIds |-> Json(Drinks(List(<<FullRecord(id)>>)))]

Start(p) ==
    /\ pc = p
    /\ url = <<>>
    /\ fetched_data = EmptyDict
    /\ index = 0
    /\ new_fetched_data = <<>>
    /\ transformed_drinks = <<>>
    /\ exc = NoExc
    /\ events = <<>>
    /\ output = Untouched

\* Line 200, for any arguments and any upstream service.
Init ==
    /\ filter_type \in FilterTypes
    /\ \/ /\ filter \in {<<"a">>, <<"a", "b">>}
          /\ api \in [initial : InitialResponses, lookup : Services]
       \/ /\ filter = <<"a">>
          /\ api \in [initial : {UniformListing(n) : n \in (MaxListing + 1)..MaxTotal},
                      lookup : {GoodService}]
    /\ data = EmptyDict
    /\ Start("construct_url")

\* construct_url on any category and any short value.
FilterChars == {"b", "7", "$", " "}

InitUrl ==
    /\ filter_type \in FilterTypes
    /\ filter \in Strings(FilterChars, MaxFilterLen)
    /\ api = [initial |-> Json(EmptyDict), lookup |-> GoodService]
    /\ data = EmptyDict
    /\ Start("construct_url")

\* transform_drinks on collections that came back from a fetch: records whose
\* display name is any short string, records with a few numbered slots set,
\* and collections of records that may lack one required key.
NameChars == {" ", "\t", "R", "u", "-"}

Named(s) ==
    Drink([full_keys(<<"1">>) EXCEPT !["strDrink"] = Str(s)], EmptyDict, EmptyDict)

\* What a numbered slot may hold: <<ingredient, measure>>, each a value or
\* "absent" (the key is not in the dict).
Absent == [t |-> "absent", v |-> <<>>]
SlotPairs ==
    {<<Absent, Str(<<"1">>)>>, <<Null, Null>>, <<Str(<<>>), Str(<<"1">>)>>,
     <<Str(<<"G">>), Absent>>, <<Str(<<"G">>), Str(<<>>)>>,
     <<Str(<<"V">>), Str(<<"2">>)>>}

Slotted(sl) ==
    Drink(full_keys(<<"1">>),
          [i \in {j \in DOMAIN sl : sl[j][1] # Absent} |-> sl[i][1]],
          [i \in {j \in DOMAIN sl : sl[j][2] # Absent} |-> sl[i][2]])

SlotSets == {S \in SUBSET (1..LastSlot) : Cardinality(S) <= MaxSlots}

Lacking ==
    {Drink(Without(full_keys(id), K), EmptyDict, EmptyDict) :
        id \in LookupIds, K \in {{}} \cup {{k} : k \in RequiredKeys}}

InitTransform ==
    /\ filter_type = "name"
    /\ filter = <<"a">>
    /\ api = [initial |-> Json(EmptyDict), lookup |-> GoodService]
    /\ \/ \E s \in Strings(NameChars, MaxNameLen) :
              data = Drinks(List(<<Named(s)>>))
       \/ \E S \in SlotSets : \E sl \in [S -> SlotPairs] :
              data = Drinks(List(<<Slotted(sl)>>))
       \/ \E c \in Strings(Lacking, MaxRecords) :
              data = Drinks(List(c))
    /\ Start("transform")

Next ==
    \/ CallConstructUrl
    \/ InitialRequest
    \/ FanOutIteration
    \/ FanOutReturn
    \/ Transform
    \/ WriteOutput
    \/ Report
    \/ Except

Spec == Init /\ [][Next]_vars

SpecUrl == InitUrl /\ [][CallConstructUrl]_vars

SpecTransform == InitTransform /\ [][Transform]_vars

---------------------------------------------------------------------------
(* What is observed of a run. *)

Requests == SelectSeq(events, LAMBDA e : e.op = "GET")
ErrorLines == SelectSeq(events, LAMBDA e : e.op = "print_error")
ReportLines == SelectSeq(events, LAMBDA e : e.op = "print_report")
ProgressAt == {p \in DOMAIN events : events[p].op = "print_processing_entry"}

\* The listing the initial request was answered with.
Listing == dict_get(api.initial.json, "drinks", List(<<>>)).v

\* The record the lookup of the k-th stub is answered with.
StubId(k) == Listing[k].f["idDrink"].v
Answer(k) == api.lookup[StubId(k)].json["drinks"].v[1]

Categories ==
    {"name", "letter", "random", "ingredient", "alcoholic", "category", "glass"}

---------------------------------------------------------------------------
(* C1, C2: construct_url. *)

\* C1: construct_url fails if and only if the category is not one of the
\* seven (KeyError), or the category is "letter" and the value is not exactly
\* one alphanumeric character (ValueError for the length, TypeError for the
\* character); every other pair is accepted and a URL is returned.
C1_FailsIffInvalid ==
    pc # "construct_url" =>
        LET invalid_category == filter_type \notin Categories
            invalid_value ==
                /\ filter_type = "letter"
                /\ ~(Len(filter) = 1 /\ filter[1] \in Letters \cup Digits)
        IN  /\ (exc # NoExc) <=> (invalid_category \/ invalid_value)
            /\ invalid_category => exc = "KeyError"
            /\ (~invalid_category /\ invalid_value) =>
                   exc = (IF Len(filter) # 1 THEN "ValueError" ELSE "TypeError")
            /\ exc # NoExc => pc = "except" /\ url = <<>>
            /\ exc = NoExc => pc = "request" /\ url # <<>>

C1_Witness ==
    /\ pc = "except"
    /\ filter_type = "letter"
    /\ filter = <<"$">>
    /\ exc = "TypeError"

RandomUrl == <<"h","t","t","p","s",":","/","/","w","w","w",".","t","h","e","c","o","c","k","t","a","i","l","d","b",".","c","o","m","/","a","p","i","/","j","s","o","n","/","v","1","/","1","/","r","a","n","d","o","m",".","p","h","p">>

\* C2: for "random" every value is accepted and the URL is the fixed
\* random-lookup URL; for every other accepted pair the URL is the base,
\* then the category's path template, then the value.
C2_UrlShape ==
    /\ (filter_type = "random" /\ pc # "construct_url") =>
           pc = "request" /\ exc = NoExc /\ url = RandomUrl
    /\ (filter_type # "random" /\ pc = "request") =>
           LET template == filter_type_map[filter_type]
               b == Len(base_url)
               t == Len(template)
           IN  /\ Len(url) = b + t + Len(filter)
               /\ SubSeq(url, 1, b) = base_url
               /\ SubSeq(url, b + 1, b + t) = template
               /\ SubSeq(url, b + t + 1, Len(url)) = filter

C2_Witness ==
    /\ pc = "request"
    /\ filter_type = "random"
    /\ filter = <<"$", " ">>
    /\ url = RandomUrl

---------------------------------------------------------------------------
(* C3, C4, C10: the fan-out. *)

NonEmpty(records) == SelectSeq(records, LAMBDA r : r # EmptyDrink)

\* C3 as stated: in a fan-out, the lookups are issued one after another in
\* listing order and, when all succeed, the collection returned is the
\* sequence of all the records they returned; without fan-out no lookup is
\* issued and the initial response is returned unchanged.
C3_Original ==
    /\ (filter_type \in FanOutTypes /\ pc = "fanout") =>
           /\ Len(Requests) = 1 + index
           /\ \A k \in 1..index : Requests[k + 1] = Get(lookup_url \o StubId(k))
           /\ new_fetched_data = [k \in 1..index |-> Answer(k)]
    /\ (filter_type \in FanOutTypes /\ pc = "transform") =>
           /\ Len(Requests) = 1 + Len(Listing)
           /\ data = Drinks(List([k \in 1..Len(Listing) |-> Answer(k)]))
    /\ (filter_type \notin FanOutTypes /\ pc = "transform") =>
           /\ Requests = <<Get(url)>>
           /\ data = api.initial.json

\* C3 (amended): as stated, except that the collection returned is the
\* sequence, in listing order, of the records returned that are not empty.
C3_FanOutInOrder ==
    /\ (filter_type \in FanOutTypes /\ pc = "fanout") =>
           /\ Len(Requests) = 1 + index
           /\ \A k \in 1..index : Requests[k + 1] = Get(lookup_url \o StubId(k))
           /\ new_fetched_data = NonEmpty([k \in 1..index |-> Answer(k)])
    /\ (filter_type \in FanOutTypes /\ pc = "transform") =>
           /\ Len(Requests) = 1 + Len(Listing)
           /\ data = Drinks(List(NonEmpty([k \in 1..Len(Listing) |-> Answer(k)])))
    /\ (filter_type \notin FanOutTypes /\ pc = "transform") =>
           /\ Requests = <<Get(url)>>
           /\ data = api.initial.json

C3_Witness ==
    /\ filter_type = "glass"
    /\ pc = "transform"
    /\ Len(Listing) = 2
    /\ StubId(1) = <<"2">>
    /\ StubId(2) = <<"1">>
    /\ data = Drinks(List(<<FullRecord(<<"2">>), FullRecord(<<"1">>)>>))

\* The fan-out has just worked on entry `index` of the listing.
AtEntry ==
    /\ filter_type \in FanOutTypes
    /\ pc \in {"fanout", "except"}
    /\ index >= 1

\* C4 as stated: a stub without id is skipped: no lookup is issued for it,
\* no failure is raised, and the loop goes on to the remaining stubs.
C4_Original ==
    (AtEntry /\ "idDrink" \notin DOMAIN Listing[index].f) =>
        /\ exc = NoExc
        /\ pc = "fanout"
        /\ Len(Requests) = index

\* C4 (amended): a stub without id is not skipped: no lookup is issued for
\* it, but a KeyError is raised and aborts the fetch.  What is skipped without
\* a failure is a stub whose lookup returns an empty record: the loop goes on
\* and the collection holds only the non-empty records.
C4_SkipsEmptyRecordOnly ==
    AtEntry =>
        LET stub == Listing[index]
        IN  /\ "idDrink" \notin DOMAIN stub.f =>
                   /\ pc = "except"
                   /\ exc = "KeyError"
                   /\ Len(Requests) = index
            /\ ( /\ "idDrink" \in DOMAIN stub.f
                 /\ stub.f["idDrink"].t = "str"
                 /\ stub.f["idDrink"].v \in LookupIds
                 /\ api.lookup[stub.f["idDrink"].v] = Json(Drinks(List(<<EmptyDrink>>))) ) =>
                   /\ pc = "fanout"
                   /\ exc = NoExc
                   /\ Len(Requests) = index + 1
                   /\ \A j \in DOMAIN new_fetched_data :
                          new_fetched_data[j] # EmptyDrink

C4_Witness ==
    /\ AtEntry
    /\ index = 2
    /\ "idDrink" \notin DOMAIN Listing[2].f
    /\ exc = "KeyError"
    /\ new_fetched_data = <<FullRecord(<<"1">>)>>

\* C10: in a fan-out over n stubs the line "Processing entry i of n" is
\* printed for exactly the entries i entered so far with i = 1, or i a
\* multiple of max(1, n // 10), or i = n, once each, and before the lookup of
\* entry i is requested; without fan-out no such line is printed.
C10_ProgressLines ==
    LET n == Len(Listing)
        step == IF n \div 10 >= 1 THEN n \div 10 ELSE 1
        due == {i \in 1..index : i = 1 \/ i % step = 0 \/ i = n}
    IN  /\ filter_type \notin FanOutTypes => ProgressAt = {}
        /\ filter_type \in FanOutTypes =>
               /\ {events[p].index : p \in ProgressAt} = due
               /\ Cardinality(ProgressAt) = Cardinality(due)
               /\ \A p \in ProgressAt :
                      /\ events[p].total = n
                      /\ Len(SelectSeq(SubSeq(events, 1, p),
                                       LAMBDA e : e.op = "GET")) = events[p].index

C10_Witness ==
    /\ filter_type = "ingredient"
    /\ pc = "transform"
    /\ Len(Listing) = 23
    /\ {events[p].index : p \in ProgressAt} =
           {1, 2, 4, 6, 8, 10, 12, 14, 16, 18, 20, 22, 23}

---------------------------------------------------------------------------
(* C5, C9: the run as a whole. *)

\* C5: once anything has failed, no further request is issued, output.json is
\* left untouched, and the failure is printed once, by the top-level handler,
\* as the last thing the run does.
C5_FailureAbortsRun ==
    /\ [](exc # NoExc =>
              /\ pc \in {"except", "done"}
              /\ output = Untouched
              /\ ReportLines = <<>>
              /\ ErrorLines = (IF pc = "done" THEN <<PrintError(exc)>> ELSE <<>>)
              /\ pc = "done" => events[Len(events)] = PrintError(exc))
    /\ [][exc # NoExc => (Requests' = Requests /\ output' = output)]_vars

C5_Witness ==
    /\ pc = "done"
    /\ filter_type \in FanOutTypes
    /\ index = 2
    /\ exc = "HTTPError"
    /\ Len(Requests) = 3
    /\ output = Untouched

\* C9 as stated: when the answer reports no match (`drinks` null or absent)
\* the run does not fail, follows up with no lookup, and ends with an empty
\* sequence of normalized records.
C9_NoMatchIsEmptyResult ==
    ( /\ pc = "done"
      /\ Len(Requests) >= 1
      /\ api.initial \in {Json(EmptyDict), Json(Drinks(Null))} ) =>
        /\ exc = NoExc
        /\ Len(Requests) = 1
        /\ transformed_drinks = <<>>
        /\ output = Written(0)

---------------------------------------------------------------------------
(* C6, C7, C8: transform_drinks. *)

Records == data["drinks"].v

\* C6: slot i is in the output ingredients if and only if the record holds a
\* non-empty ingredient name at i, whatever the other slots hold; the slots
\* kept are in ascending order and each carries its measure as the record
\* holds it (None when the record holds none).
C6_IngredientSlots ==
    pc = "write" =>
        \A k \in DOMAIN Records :
            LET drink == Records[k]
                out == transformed_drinks[k].ingredients
                kept == {i \in 1..15 : /\ i \in DOMAIN drink.ing
                                       /\ drink.ing[i].t = "str"
                                       /\ drink.ing[i].v # <<>>}
                place(i) == Cardinality({j \in kept : j <= i})
            IN  /\ Len(out) = Cardinality(kept)
                /\ \A i \in kept :
                       /\ out[place(i)].name = drink.ing[i]
                       /\ out[place(i)].measure =
                              (IF i \in DOMAIN drink.meas THEN drink.meas[i] ELSE Null)

C6_Witness ==
    /\ pc = "write"
    /\ Len(Records) = 1
    /\ DOMAIN Records[1].ing = {1, 3}
    /\ DOMAIN Records[1].meas = {3}
    /\ transformed_drinks[1].ingredients =
           <<[name |-> Str(<<"G">>), measure |-> Null],
             [name |-> Str(<<"G">>), measure |-> Str(<<>>)]>>

\* str.split(): the maximal runs of non-whitespace characters of s.
RECURSIVE Words(_)
Words(s) ==
    IF s = <<>> THEN <<>>
    ELSE IF s[1] \in Whitespace THEN Words(Tail(s))
    ELSE LET n == CHOOSE m \in 1..Len(s) :
                      /\ \A i \in 1..m : s[i] \notin Whitespace
                      /\ m = Len(s) \/ s[m + 1] \in Whitespace
         IN  <<SubSeq(s, 1, n)>> \o Words(SubSeq(s, n + 1, Len(s)))

RECURSIVE Hyphenated(_)
Hyphenated(words) ==
    IF words = <<>> THEN <<>>
    ELSE IF Len(words) = 1 THEN words[1]
    ELSE words[1] \o <<"-">> \o Hyphenated(Tail(words))

\* C7: name_id is the display name in lower case, without the whitespace
\* around it, each run of whitespace inside it replaced by one hyphen: it
\* holds no whitespace and begins or ends with a hyphen only where the
\* trimmed name does; the name field is the display name unchanged.
C7_NameId ==
    pc = "write" =>
        \A k \in DOMAIN Records :
            LET name == Records[k].f["strDrink"].v
                out == transformed_drinks[k]
                words == Words(name)
            IN  /\ out.name = Str(name)
                /\ out.name_id = lower(Hyphenated(words))
                /\ \A i \in DOMAIN out.name_id : out.name_id[i] \notin Whitespace
                /\ (out.name_id # <<>> /\ out.name_id[1] = "-") =>
                       words[1][1] = "-"
                /\ (out.name_id # <<>> /\ out.name_id[Len(out.name_id)] = "-") =>
                       words[Len(words)][Len(words[Len(words)])] = "-"

C7_Witness ==
    /\ pc = "write"
    /\ Records[1].f["strDrink"] = Str(<<" ", "R", " ", "\t", "u">>)
    /\ transformed_drinks[1].name_id = <<"r", "-", "u">>
    /\ transformed_drinks[1].name = Str(<<" ", "R", " ", "\t", "u">>)

\* C8: when a record of the collection lacks one of the six required keys,
\* transform_drinks raises KeyError and returns nothing: no record is
\* emitted, neither the defective one nor those before it.
C8_MissingRequiredKey ==
    ( /\ pc # "transform"
      /\ \E k \in DOMAIN Records :
             \E key \in {"strDrink", "strCategory", "strAlcoholic", "strGlass",
                         "strInstructions", "strDrinkThumb"} :
                 key \notin DOMAIN Records[k].f ) =>
        /\ pc = "except"
        /\ exc = "KeyError"
        /\ transformed_drinks = <<>>
        /\ output = Untouched

C8_Witness ==
    /\ pc = "except"
    /\ exc = "KeyError"
    /\ Len(Records) = 2
    /\ DOMAIN Records[1].f = DOMAIN full_keys(<<"1">>)
    /\ "strInstructions" \notin DOMAIN Records[2].f
    /\ transformed_drinks = <<>>

====
